---- MODULE Spec2Model ----
(***************************************************************************)
(* A model of examples/tinygpt.py: the character vocabulary, the batch     *)
(* sampler, the causal mask of an attention head, the custom cross         *)
(* entropy, the training loop with its periodic evaluation, and the        *)
(* autoregressive generator.                                               *)
(*                                                                         *)
(* Python sequences are 0-based; TLA+ sequences are 1-based.  A Python     *)
(* list/tensor row `a` is the TLA+ sequence with a[i] (Python) = a[i+1].   *)
(* Characters are their code points, strings are sequences of characters.  *)
(***************************************************************************)
EXTENDS Integers, Sequences, FiniteSets, TLC

\* ------------------------------------------------------------------------
\* Hyperparameters (tinygpt.py:17-22), at small values: the program sets
\* batch_size = 64, block_size = 128, max_iters = 5000, eval_interval = 500,
\* eval_iters = 200.
\* ------------------------------------------------------------------------
batch_size == 2
block_size == 2
max_iters == 4
eval_interval == 2
eval_iters == 2

\* Bounds of the inputs the specifications enumerate.
MaxChar == 3          \* characters are the code points 1..MaxChar
MaxText == 3          \* longest corpus text of SpecVocab
MaxCode == 2          \* longest string / index list encoded or decoded
MaxData == 4          \* longest token sequence handed to the batch sampler
UniformScale == 2     \* a uniform draw is a multiple of 1/UniformScale
MaxPos == 2           \* most positions (B*T) of a loss computation
MaxClasses == 2       \* most classes of a loss computation
MaxOver == 1          \* a forward pass sees at most block_size + MaxOver positions
RngMod == 16          \* states of a random generator
MaxCalls == 2         \* most calls a run of SpecRepro makes
MaxNew == 2           \* most tokens generate is asked for

Alphabet == 1..MaxChar

VARIABLES
  pc,                 \* position of the running program / operation
  \* vocabulary (tinygpt.py:227-239)
  text, chars, stoi, itos, s_in, l_in, enc_s, dec_enc_s, dec_l, enc_dec_l,
  \* batch sampler (tinygpt.py:68-74, 242-245)
  train_data, val_data, split, ix, xb, yb,
  \* Tensor.training, the Tensor random generator and the last forward pass
  \* (tinygpt.py:14, 161-178)
  training, trng, fwd, fw_idx, fw_targets,
  \* attention head (tinygpt.py:84-104)
  head_T, wei, mask, wei_masked, wei_soft, att,
  \* cross_entropy (tinygpt.py:44-52)
  ce_out, ce_Y, ce_y, ce_loss,
  \* training loop and estimate_loss (tinygpt.py:54-65, 255-273)
  iter, est_split, est_k, ev_log, done_iters, reports,
  \* generate (tinygpt.py:180-203)
  idx, max_new_tokens, n_done, idx_cond, gen_out, history, sampled,
  \* two runs of the program side by side (tinygpt.py:14, 71, 193)
  runs, calls

vocabVars == <<text, chars, stoi, itos, s_in, l_in, enc_s, dec_enc_s, dec_l, enc_dec_l>>
batchVars == <<train_data, val_data, split, ix, xb, yb>>
fwdVars == <<training, trng, fwd, fw_idx, fw_targets>>
headVars == <<head_T, wei, mask, wei_masked, wei_soft, att>>
lossVars == <<ce_out, ce_Y, ce_y, ce_loss>>
trainVars == <<iter, est_split, est_k, ev_log, done_iters, reports>>
genVars == <<idx, max_new_tokens, n_done, idx_cond, gen_out, history, sampled>>
reproVars == <<runs, calls>>
vars == <<pc, vocabVars, batchVars, fwdVars, headVars, lossVars, trainVars, genVars,
          reproVars>>

\* ------------------------------------------------------------------------
\* Python helpers
\* ------------------------------------------------------------------------
Min(a, b) == IF a <= b THEN a ELSE b
Max(a, b) == IF a >= b THEN a ELSE b

Range(s) == {s[i] : i \in 1..Len(s)}

\* All sequences over S of length lo..hi.
SeqsOf(S, lo, hi) == UNION {[1..n -> S] : n \in lo..hi}

\* Python a[lo:hi] for 0 <= lo, hi: the bounds are clamped to len(a).
Slice(a, lo, hi) == SubSeq(a, Min(lo, Len(a)) + 1, Min(hi, Len(a)))

\* Python a[-k:] for k > 0: the last k elements, all of a when len(a) < k.
LastK(a, k) == SubSeq(a, Max(Len(a) - k, 0) + 1, Len(a))

\* list(set(text)): the distinct elements, in some order (sorted() follows).
RECURSIVE list_of_set(_)
list_of_set(S) ==
  IF S = {} THEN <<>>
  ELSE LET c == CHOOSE c \in S : TRUE IN <<c>> \o list_of_set(S \ {c})

\* sorted(l): ascending, duplicates kept (insertion sort).
RECURSIVE sorted(_)
Insert(x, l) ==
  LET k == Cardinality({i \in 1..Len(l) : l[i] <= x})
  IN SubSeq(l, 1, k) \o <<x>> \o SubSeq(l, k + 1, Len(l))
sorted(l) == IF l = <<>> THEN <<>> ELSE Insert(l[1], sorted(Tail(l)))

\* ------------------------------------------------------------------------
\* Vocabulary (tinygpt.py:230-239)
\* ------------------------------------------------------------------------
\* A slip that forgets set(): chars = sorted(list(text)).
chars_no_set(t) == sorted(t)

\* chars = sorted(list(set(text)))
chars_of(t) == sorted(list_of_set(Range(t)))

\* vocab_size = len(chars)
vocab_size_of(cs) == Len(cs)

\* stoi = { ch:i for i,ch in enumerate(chars) }: a later i overwrites an earlier.
stoi_of(cs) ==
  [ch \in Range(cs) |->
     CHOOSE i \in 0..(Len(cs) - 1) :
       /\ cs[i + 1] = ch
       /\ \A j \in 0..(Len(cs) - 1) : cs[j + 1] = ch => j <= i]

\* itos = { i:ch for i,ch in enumerate(chars) }
itos_of(cs) == [i \in 0..(Len(cs) - 1) |-> cs[i + 1]]

\* encode = lambda s: [stoi[c] for c in s]
encode(st, s) == [k \in 1..Len(s) |-> st[s[k]]]

\* decode = lambda l: ''.join([itos[i] for i in l]); itos[i] is a 1-character string.
RECURSIVE join(_)
join(parts) == IF parts = <<>> THEN <<>> ELSE Head(parts) \o join(Tail(parts))
decode(it, l) == join([k \in 1..Len(l) |-> <<it[l[k]]>>])

\* The corpus of the specifications that are not about the vocabulary.
SampleText == <<3, 1, 3, 2>>

NoRoundTrip ==
  /\ s_in = <<>> /\ l_in = <<>> /\ enc_s = <<>> /\ dec_enc_s = <<>>
  /\ dec_l = <<>> /\ enc_dec_l = <<>>

\* The vocabulary of SampleText, built as tinygpt.py:230-234 builds it.
IdleVocab ==
  /\ text = SampleText
  /\ chars = chars_of(text)
  /\ stoi = stoi_of(chars)
  /\ itos = itos_of(chars)
  /\ NoRoundTrip

\* Token sequences the batch sampler is not asked about.
DefaultData == [k \in 1..(block_size + 2) |-> k % 2]

IdleBatch ==
  /\ train_data = DefaultData /\ val_data = DefaultData
  /\ split = "train" /\ ix = <<>> /\ xb = <<>> /\ yb = <<>>

NoForward == [by |-> "none", B |-> 0, T |-> 0, mode |-> FALSE, result |-> "none",
              logits_T |-> 0, loss |-> FALSE]

IdleFwd ==
  /\ training = FALSE /\ trng = 0 /\ fwd = NoForward
  /\ fw_idx = <<>> /\ fw_targets = FALSE

IdleHead ==
  /\ head_T = 0 /\ wei = <<>> /\ mask = <<>> /\ wei_masked = <<>>
  /\ wei_soft = <<>> /\ att = <<>>

IdleLoss == ce_out = <<>> /\ ce_Y = <<>> /\ ce_y = <<>> /\ ce_loss = <<>>

IdleTrain ==
  /\ iter = 0 /\ est_split = "none" /\ est_k = 0 /\ ev_log = <<>>
  /\ done_iters = 0 /\ reports = <<>>

IdleGen ==
  /\ idx = <<>> /\ max_new_tokens = 0 /\ n_done = 0 /\ idx_cond = <<>>
  /\ gen_out = <<>> /\ history = <<>> /\ sampled = <<>>

IdleRepro == runs = <<>> /\ calls = <<>>

\* ------------------------------------------------------------------------
\* SpecVocab: build the vocabulary of any corpus, then encode and decode.
\* ------------------------------------------------------------------------
\* text = get_input_text(...): any corpus.
InitVocab ==
  /\ pc = "start"
  /\ text \in SeqsOf(Alphabet, 0, MaxText)
  /\ chars = <<>> /\ stoi = <<>> /\ itos = <<>>
  /\ NoRoundTrip
  /\ IdleBatch /\ IdleFwd /\ IdleHead /\ IdleLoss /\ IdleTrain /\ IdleGen /\ IdleRepro

\* tinygpt.py:230-234
BuildVocab ==
  /\ pc = "start"
  /\ chars' = chars_of(text)
  /\ stoi' = stoi_of(chars')
  /\ itos' = itos_of(chars')
  /\ pc' = "built"
  /\ UNCHANGED <<text, s_in, l_in, enc_s, dec_enc_s, dec_l, enc_dec_l>>
  /\ UNCHANGED <<batchVars, fwdVars, headVars, lossVars, trainVars, genVars, reproVars>>

\* A caller round-trips a string of corpus characters through encode then decode,
\* and a list of valid indices through decode then encode (tinygpt.py:237-239).
RoundTrip ==
  /\ pc = "built"
  /\ \E s \in SeqsOf(Range(text), 0, MaxCode) \cup {text},
        l \in SeqsOf(0..(vocab_size_of(chars) - 1), 0, MaxCode) :
       /\ s_in' = s
       /\ l_in' = l
       /\ enc_s' = encode(stoi, s)
       /\ dec_enc_s' = decode(itos, enc_s')
       /\ dec_l' = decode(itos, l)
       /\ enc_dec_l' = encode(stoi, dec_l')
  /\ pc' = "coded"
  /\ UNCHANGED <<text, chars, stoi, itos>>
  /\ UNCHANGED <<batchVars, fwdVars, headVars, lossVars, trainVars, genVars, reproVars>>

NextVocab == BuildVocab \/ RoundTrip

SpecVocab == InitVocab /\ [][NextVocab]_vars

\* C6: the vocabulary maps the distinct characters of the corpus one-to-one onto
\* 0..vocab_size-1; decode(encode(s)) = s for every string s of corpus characters
\* (the corpus itself included) and encode(decode(l)) = l for every list l of
\* indices in [0, vocab_size).
C6_VocabRoundTrip ==
  /\ pc \in {"built", "coded"} =>
       /\ vocab_size_of(chars) = Cardinality(Range(text))
       /\ DOMAIN stoi = Range(text)
       /\ DOMAIN itos = 0..(vocab_size_of(chars) - 1)
       /\ \A c \in Range(text) :
            stoi[c] \in 0..(vocab_size_of(chars) - 1) /\ itos[stoi[c]] = c
       /\ \A i \in 0..(vocab_size_of(chars) - 1) :
            itos[i] \in Range(text) /\ stoi[itos[i]] = i
       /\ decode(itos, encode(stoi, text)) = text
  /\ pc = "coded" => dec_enc_s = s_in /\ enc_dec_l = l_in

\* A corpus with a repeated character and at least two distinct ones has been
\* round-tripped together with a non-trivial index list.
C6_Witness ==
  /\ pc = "coded"
  /\ Len(text) > vocab_size_of(chars)
  /\ vocab_size_of(chars) >= 2
  /\ Len(s_in) >= 2 /\ Len(l_in) >= 2
  /\ l_in[1] # l_in[2]

\* ------------------------------------------------------------------------
\* The Tensor random generator (tinygpt.py:14)
\* ------------------------------------------------------------------------
\* Tensor.manual_seed(31337)
seed == 31337

\* The generator is a deterministic function of its state; a linear congruential
\* generator over RngMod states stands for it.
manual_seed(s) == s % RngMod
rng_next(s) == (5 * s + 3) % RngMod

RECURSIVE rng_after(_, _)
rng_after(s, n) == IF n = 0 THEN s ELSE rng_after(rng_next(s), n - 1)

\* Tensor.uniform(n, low=0, high=h) from generator state s: rand() * h, with
\* rand() = state / RngMod in [0, 1), as numerators over UniformScale.
uniform_from(s, n, high) ==
  [j \in 1..n |-> (rng_after(s, j) * high * UniformScale) \div RngMod]

\* ------------------------------------------------------------------------
\* Batch sampler (tinygpt.py:68-74)
\* ------------------------------------------------------------------------
\* Tensor.uniform(n, low=0, high=h): n floats in [0, h), here the multiples of
\* 1/UniformScale, each held as its numerator.
UniformDraws(n, high) == [1..n -> 0..(high * UniformScale - 1)]

\* .cast(dtype=dtypes.int32) of a non-negative float: the fraction is dropped.
cast_int32(u) == u \div UniformScale

\* A slip that lets the last offset start one position too late.
get_batch_high_off_by_one(data) == Len(data) - block_size + 1

\* high=(data.shape[0] - block_size)
get_batch_high(data) == Len(data) - block_size

\* data = train_data if split == "train" else val_data
get_batch_data(sp) == IF sp = "train" THEN train_data ELSE val_data

\* ix = Tensor.uniform(...).cast(dtype=dtypes.int32), from the draws
get_batch_ix(draws) == [r \in 1..Len(draws) |-> cast_int32(draws[r])]

\* x = Tensor.stack([data[i:i+block_size] for i in ix.numpy()])
get_batch_x(data, offs) ==
  [r \in 1..Len(offs) |-> Slice(data, offs[r], offs[r] + block_size)]

\* y = Tensor.stack([data[i+1:i+block_size+1] for i in ix.numpy()])
get_batch_y(data, offs) ==
  [r \in 1..Len(offs) |-> Slice(data, offs[r] + 1, offs[r] + block_size + 1)]

\* get_batch(split) on the draws Tensor.uniform returns.
get_batch(sp, draws) ==
  /\ ix' = get_batch_ix(draws)
  /\ xb' = get_batch_x(get_batch_data(sp), ix')
  /\ yb' = get_batch_y(get_batch_data(sp), ix')
  /\ split' = sp

\* get_batch(split) in the seeded program: the draws come from the Tensor generator.
get_batch_seeded(sp) ==
  /\ get_batch(sp, uniform_from(trng, batch_size, get_batch_high(get_batch_data(sp))))
  /\ trng' = rng_after(trng, batch_size)

\* ------------------------------------------------------------------------
\* SpecBatch: get_batch on any token sequence longer than block_size.
\* ------------------------------------------------------------------------
TokenSeqs == SeqsOf({0, 1}, block_size + 1, MaxData)

InitBatch ==
  /\ pc = "start"
  /\ split \in {"train", "val"}
  /\ \/ split = "train" /\ train_data \in TokenSeqs /\ val_data = DefaultData
     \/ split = "val" /\ val_data \in TokenSeqs /\ train_data = DefaultData
  /\ ix = <<>> /\ xb = <<>> /\ yb = <<>>
  /\ IdleVocab /\ IdleFwd /\ IdleHead /\ IdleLoss /\ IdleTrain /\ IdleGen /\ IdleRepro

GetBatch ==
  /\ pc = "start"
  /\ \E draws \in UniformDraws(batch_size, get_batch_high(get_batch_data(split))) :
       get_batch(split, draws)
  /\ pc' = "batched"
  /\ UNCHANGED <<train_data, val_data>>
  /\ UNCHANGED <<vocabVars, fwdVars, headVars, lossVars, trainVars, genVars, reproVars>>

NextBatch == GetBatch

SpecBatch == InitBatch /\ [][NextBatch]_vars

\* C1: for a sequence of length L > block_size, get_batch returns inputs and
\* targets of shape (batch_size, block_size); every offset lies in
\* [0, L - block_size); every input window and every target window lies inside
\* the sequence; targets[r][t] is the element one position after inputs[r][t].
C1_BatchWindows ==
  pc = "batched" =>
    LET data == get_batch_data(split)
        L == Len(data)
    IN /\ Len(ix) = batch_size /\ Len(xb) = batch_size /\ Len(yb) = batch_size
       /\ \A r \in 1..batch_size :
            /\ ix[r] >= 0 /\ ix[r] < L - block_size
            /\ Len(xb[r]) = block_size /\ Len(yb[r]) = block_size
            /\ ix[r] + block_size - 1 <= L - 1
            /\ ix[r] + block_size <= L - 1
            /\ \A t \in 0..(block_size - 1) :
                 /\ xb[r][t + 1] = data[ix[r] + t + 1]
                 /\ yb[r][t + 1] = data[ix[r] + t + 2]

\* A batch whose rows start at different offsets, one of them the last valid one.
C1_Witness ==
  /\ pc = "batched"
  /\ \E r \in 1..batch_size : ix[r] = Len(get_batch_data(split)) - block_size - 1
  /\ \E r \in 1..batch_size : ix[r] = 0
  /\ Len(get_batch_data(split)) > block_size + 1
  /\ xb # yb

\* ------------------------------------------------------------------------
\* Attention head (tinygpt.py:84-104)
\* ------------------------------------------------------------------------
\* float32 values that are finite or minus infinity.
NegInf == [inf |-> TRUE, v |-> 0]
Fin(v) == [inf |-> FALSE, v |-> v]

\* a + b in float arithmetic: anything plus -inf is -inf.
ext_add(a, b) == IF a.inf \/ b.inf THEN NegInf ELSE Fin(a.v + b.v)

\* np.ones((T,T), dtype=np.float32) * -np.inf
ones_times_neg_inf(T) == [t \in 1..T |-> [u \in 1..T |-> NegInf]]

\* np.triu(m, k): m above the k-th diagonal, 0 below it.
np_triu(m, k) ==
  [t \in 1..Len(m) |-> [u \in 1..Len(m[t]) |-> IF u - t >= k THEN m[t][u] ELSE Fin(0)]]

\* A slip that masks the diagonal too: np.triu(..., k=0).
causal_mask_k0(T) == np_triu(ones_times_neg_inf(T), 0)

\* mask = Tensor(np.triu(np.ones((T,T), dtype=np.float32) * -np.inf, k=1))
causal_mask(T) == np_triu(ones_times_neg_inf(T), 1)

\* wei = wei + mask
add_mask(w, m) == [t \in 1..Len(w) |-> [u \in 1..Len(w[t]) |-> ext_add(w[t][u], m[t][u])]]

\* The attention scores q @ k^T * n_embd**-0.5 the model enumerates.
Scores == {0, 1}
ScoreSpan ==
  LET hi == CHOOSE m \in Scores : \A s \in Scores : s <= m
      lo == CHOOSE m \in Scores : \A s \in Scores : s >= m
  IN hi - lo

RECURSIVE SumSeq(_)
SumSeq(s) == IF s = <<>> THEN 0 ELSE Head(s) + SumSeq(Tail(s))

\* Tensor.softmax(-1) of one row: exp(x - max(x)) / sum.  exp is taken to base 2
\* and held as a numerator over 2^ScoreSpan, so exp(-inf) is exactly 0 and the
\* exp of a finite score is positive.  A row of -inf only has no finite maximum:
\* the result is NaN.
softmax_row(x) ==
  LET fin == {u \in 1..Len(x) : ~x[u].inf}
  IN IF fin = {} THEN [u \in 1..Len(x) |-> [nan |-> TRUE, num |-> 0, den |-> 0]]
     ELSE LET mx == CHOOSE m \in {x[u].v : u \in fin} : \A u \in fin : x[u].v <= m
              e == [u \in 1..Len(x) |->
                      IF x[u].inf \/ x[u].v - mx < -ScoreSpan THEN 0
                      ELSE 2 ^ (ScoreSpan + x[u].v - mx)]
          IN [u \in 1..Len(x) |-> [nan |-> FALSE, num |-> e[u], den |-> SumSeq(e)]]

softmax(w) == [t \in 1..Len(w) |-> softmax_row(w[t])]

\* dropout = 0.2 (tinygpt.py:26) as the fraction dropout_num / dropout_den.
dropout_num == 1
dropout_den == 5

\* Tensor.dropout(p): outside training the identity; in training each entry is
\* kept and scaled by 1/(1-p), or zeroed.
apply_dropout(w, keep, train) ==
  IF ~train THEN w
  ELSE [t \in 1..Len(w) |-> [u \in 1..Len(w[t]) |->
          IF w[t][u].nan THEN w[t][u]
          ELSE [nan |-> FALSE,
                num |-> IF keep[t][u] THEN w[t][u].num * dropout_den ELSE 0,
                den |-> w[t][u].den * (dropout_den - dropout_num)]]]

KeepMasks(T, train) ==
  IF train THEN [1..T -> [1..T -> BOOLEAN]] ELSE {[t \in 1..T |-> [u \in 1..T |-> TRUE]]}

\* ------------------------------------------------------------------------
\* SpecHead: one attention head on an input of T <= block_size positions.
\* ------------------------------------------------------------------------
InitHead ==
  /\ pc = "start"
  /\ head_T \in 1..block_size
  /\ wei \in [1..head_T -> [1..head_T -> {Fin(v) : v \in Scores}]]
  /\ training \in BOOLEAN
  /\ trng = 0 /\ fwd = NoForward /\ fw_idx = <<>> /\ fw_targets = FALSE
  /\ mask = <<>> /\ wei_masked = <<>> /\ wei_soft = <<>> /\ att = <<>>
  /\ IdleVocab /\ IdleBatch /\ IdleLoss /\ IdleTrain /\ IdleGen /\ IdleRepro

\* Head.__call__ from the scores on (tinygpt.py:95-100).
HeadCall ==
  /\ pc = "start"
  /\ mask' = causal_mask(head_T)
  /\ wei_masked' = add_mask(wei, mask')
  /\ wei_soft' = softmax(wei_masked')
  /\ \E keep \in KeepMasks(head_T, training) :
       att' = apply_dropout(wei_soft', keep, training)
  /\ pc' = "attended"
  /\ UNCHANGED <<head_T, wei, fwdVars>>
  /\ UNCHANGED <<vocabVars, batchVars, lossVars, trainVars, genVars, reproVars>>

NextHead == HeadCall

SpecHead == InitHead /\ [][NextHead]_vars

\* C4: for every T in 1..block_size the additive mask is T x T, -inf at every
\* (t, t') with t' > t and 0 at every (t, t') with t' <= t; after the softmax the
\* weight at (t, t') is exactly zero whenever t' > t, and every position has a
\* positive weight on itself and on every earlier position.
C4_CausalMask ==
  pc = "attended" =>
    /\ Len(mask) = head_T
    /\ \A t \in 1..head_T :
         /\ Len(mask[t]) = head_T
         /\ \A u \in 1..head_T :
              /\ u > t => mask[t][u] = NegInf
              /\ u <= t => mask[t][u] = Fin(0)
              /\ ~wei_soft[t][u].nan /\ wei_soft[t][u].den > 0
              /\ u > t => wei_soft[t][u].num = 0 /\ att[t][u].num = 0
              /\ u <= t => wei_soft[t][u].num > 0

\* A head over at least two positions, in training, whose scores differ.
C4_Witness ==
  /\ pc = "attended"
  /\ head_T >= 2
  /\ head_T = block_size
  /\ training
  /\ wei[2][1] # wei[2][2]
  /\ wei_masked[1][2] = NegInf
  /\ att[2][1].num > 0

\* ------------------------------------------------------------------------
\* cross_entropy (tinygpt.py:44-52)
\* ------------------------------------------------------------------------
\* A slip that builds the textbook one-hot target: -1 at the target class.
one_hot_minus_one(N, C, YY) ==
  [n \in 1..N |-> [c \in 1..C |-> IF c - 1 = YY[n] THEN -1 ELSE 0]]

\* y = np.zeros((N, num_classes)); y[range(N), YY] = -1.0*num_classes
one_hot_scaled(N, C, YY) ==
  [n \in 1..N |-> [c \in 1..C |-> IF c - 1 = YY[n] THEN -1 * C ELSE 0]]

\* out.mul(y)
mul(a, b) == [n \in 1..Len(a) |-> [c \in 1..Len(a[n]) |-> a[n][c] * b[n][c]]]

\* Tensor.mean(): the sum of all elements over their count, as a fraction.
mean(a) ==
  [num |-> SumSeq([n \in 1..Len(a) |-> SumSeq(a[n])]),
   den |-> SumSeq([n \in 1..Len(a) |-> Len(a[n])])]

\* cross_entropy(out, Y) on N positions and num_classes = out.shape[-1] classes.
cross_entropy_y(o, YY) == one_hot_scaled(Len(YY), Len(o[1]), YY)
cross_entropy(o, YY) == mean(mul(o, cross_entropy_y(o, YY)))

\* ------------------------------------------------------------------------
\* SpecLoss: cross_entropy on any log-probabilities and targets.
\* ------------------------------------------------------------------------
\* Log-probabilities, in a fixed unit; none is positive.
LogProbs == {-3, -1, 0}

InitLoss ==
  /\ pc = "start"
  /\ \E N \in 1..MaxPos, C \in 1..MaxClasses :
       /\ ce_out \in [1..N -> [1..C -> LogProbs]]
       /\ ce_Y \in [1..N -> 0..(C - 1)]
  /\ ce_y = <<>> /\ ce_loss = <<>>
  /\ IdleVocab /\ IdleBatch /\ IdleFwd /\ IdleHead /\ IdleTrain /\ IdleGen /\ IdleRepro

CrossEntropy ==
  /\ pc = "start"
  /\ ce_y' = cross_entropy_y(ce_out, ce_Y)
  /\ ce_loss' = cross_entropy(ce_out, ce_Y)
  /\ pc' = "lossed"
  /\ UNCHANGED <<ce_out, ce_Y>>
  /\ UNCHANGED <<vocabVars, batchVars, fwdVars, headVars, trainVars, genVars, reproVars>>

NextLoss == CrossEntropy

SpecLoss == InitLoss /\ [][NextLoss]_vars

\* C10: the target tensor has the shape of out, -C at the target class of each
\* position and 0 elsewhere; the loss is the sum of the element-wise product over
\* N*C; it equals the mean over the N positions of the negated log-probability of
\* the target class, and it is never negative.
C10_LossIsMeanNLL ==
  pc = "lossed" =>
    LET N == Len(ce_out)
        C == Len(ce_out[1])
        nll == SumSeq([n \in 1..N |-> -1 * ce_out[n][ce_Y[n] + 1]])
    IN /\ Len(ce_y) = N
       /\ \A n \in 1..N :
            /\ Len(ce_y[n]) = C
            /\ \A c \in 1..C : ce_y[n][c] = IF c - 1 = ce_Y[n] THEN -1 * C ELSE 0
       /\ ce_loss.den = N * C
       /\ ce_loss.num =
            SumSeq([n \in 1..N |-> SumSeq([c \in 1..C |-> ce_out[n][c] * ce_y[n][c]])])
       /\ ce_loss.num * N = nll * ce_loss.den
       /\ ce_loss.num >= 0

\* A positive loss over at least two positions and two classes, with log-
\* probabilities that differ between the target class and another class.
C10_Witness ==
  /\ pc = "lossed"
  /\ Len(ce_out) >= 2 /\ Len(ce_out[1]) >= 2
  /\ ce_loss.num > 0
  /\ ce_Y[1] # ce_Y[2]
  /\ \E c \in 1..Len(ce_out[1]) : ce_out[1][c] # ce_out[1][ce_Y[1] + 1]

\* ------------------------------------------------------------------------
\* GPTLanguageModel.__call__ (tinygpt.py:161-178)
\* ------------------------------------------------------------------------
\* nn.Embedding(rows, n_embd) looked up at index i.  An index inside the table
\* gives its row.  For an index outside it the design says only that the
\* embedding is not defined there: the lookup may raise, or it may return a row
\* that is no row of the table (all zeros for a one-hot product).
embedding_lookup(i, rows) == IF i < rows THEN {"row"} ELSE {"raise", "zero_row"}

\* pos_emb = self.position_embedding_table(Tensor.arange(T).reshape(1,T)): the
\* outcomes of looking up the positions 0..T-1 in a table of block_size rows.
pos_emb_outcomes(T) ==
  IF \A t \in 0..(T - 1) : embedding_lookup(t, block_size) = {"row"} THEN {"row"}
  ELSE UNION {embedding_lookup(t, block_size) : t \in 0..(T - 1)} \ {"row"}

\* The forward pass on idx of shape (B, T): there is no comparison of T with
\* block_size in it; it fails only where a call it makes fails, and otherwise it
\* returns logits of shape (B, T, vocab_size) and, with targets, a loss.
model_call(by, rows, with_targets, o) ==
  [by |-> by, B |-> Len(rows), T |-> Len(rows[1]), mode |-> training,
   result |-> IF o = "raise" THEN "error" ELSE "logits",
   logits_T |-> IF o = "raise" THEN 0 ELSE Len(rows[1]),
   loss |-> with_targets /\ o # "raise"]

\* A forward pass made at some place of the program, which goes on at `next` when
\* the pass returns.  In training mode the dropout layers draw from the Tensor
\* generator.
Forward(by, rows, with_targets, next) ==
  \E o \in pos_emb_outcomes(Len(rows[1])) :
    /\ fwd' = model_call(by, rows, with_targets, o)
    /\ trng' = IF training THEN rng_next(trng) ELSE trng
    /\ pc' = IF o = "raise" THEN "error" ELSE next

\* ------------------------------------------------------------------------
\* SpecForward: one forward pass on an input of any length.
\* ------------------------------------------------------------------------
InitForward ==
  /\ pc = "start"
  /\ \E B \in {1, 2}, T \in 1..(block_size + MaxOver) : fw_idx \in [1..B -> [1..T -> {0, 1}]]
  /\ fw_targets \in BOOLEAN
  /\ training \in BOOLEAN
  /\ trng = 0 /\ fwd = NoForward
  /\ IdleVocab /\ IdleBatch /\ IdleHead /\ IdleLoss /\ IdleTrain /\ IdleGen /\ IdleRepro

ForwardCall ==
  /\ pc = "start"
  /\ Forward("caller", fw_idx, fw_targets, "forwarded")
  /\ UNCHANGED <<training, fw_idx, fw_targets>>
  /\ UNCHANGED <<vocabVars, batchVars, headVars, lossVars, trainVars, genVars, reproVars>>

NextForward == ForwardCall

SpecForward == InitForward /\ [][NextForward]_vars

\* C7: a forward pass on an input whose time dimension exceeds block_size fails
\* with an error: it never produces logits (and never a truncated result).
C7_LongInputRejected ==
  (fwd.by # "none" /\ fwd.T > block_size) => (fwd.result = "error" /\ pc = "error")

\* ------------------------------------------------------------------------
\* generate (tinygpt.py:180-203)
\* ------------------------------------------------------------------------
\* A slip that forgets both crops: the context is the whole history.
crop_missing(rows) == rows

\* idx[:, -block_size:]
crop(rows) == [r \in 1..Len(rows) |-> LastK(rows[r], block_size)]

\* Tensor.cat(idx, Tensor(idx_next), dim=1)
cat_column(rows, col) == [r \in 1..Len(rows) |-> Append(rows[r], col[r])]

\* np.random.choice(len(p), size=1, p=p) for each row p of probs: one index of
\* range(vocab_size) a row.
Samples(B) == [1..B -> 0..(vocab_size_of(chars) - 1)]

\* A slip that runs the loop once more than asked.
range_one_more(n, N) == n <= N

\* for _ in range(max_new_tokens), n iterations in: is there another?
range_continues(n, N) == n < N

\* The crop of line 185 and the forward pass.
GenForward ==
  /\ pc = "gen_head"
  /\ range_continues(n_done, max_new_tokens)
  /\ idx_cond' = crop(idx)
  /\ Forward("generate", idx_cond', FALSE, "gen_sample")
  /\ UNCHANGED <<idx, max_new_tokens, n_done, gen_out, history, sampled>>
  /\ UNCHANGED <<training, fw_idx, fw_targets>>
  /\ UNCHANGED <<vocabVars, batchVars, headVars, lossVars, trainVars, reproVars>>

\* Lines 189-202: sample one token a row, decode row 0's, append, crop.
GenSample ==
  /\ pc = "gen_sample"
  /\ \E idx_next \in Samples(Len(idx)) :
       /\ gen_out' = gen_out \o decode(itos, <<idx_next[1]>>)
       /\ idx' = crop(cat_column(idx, idx_next))
       /\ history' = cat_column(history, idx_next)
       /\ sampled' = Append(sampled, idx_next[1])
  /\ n_done' = n_done + 1
  /\ pc' = "gen_head"
  /\ UNCHANGED <<max_new_tokens, idx_cond>>
  /\ UNCHANGED <<vocabVars, batchVars, fwdVars, headVars, lossVars, trainVars, reproVars>>

\* The loop is exhausted: return out.
GenReturn ==
  /\ pc = "gen_head"
  /\ ~range_continues(n_done, max_new_tokens)
  /\ pc' = "done"
  /\ UNCHANGED <<vocabVars, batchVars, fwdVars, headVars, lossVars, trainVars, genVars,
                 reproVars>>

\* ------------------------------------------------------------------------
\* SpecGen: generate on any seed context and any token count.
\* ------------------------------------------------------------------------
\* Seeds of shape (B, T0), T0 up to block_size + MaxOver; the rows after the
\* first are zeros, as in Tensor.zeros of line 276.
Seeds ==
  UNION {{[r \in 1..B |-> IF r = 1 THEN s ELSE [k \in 1..Len(s) |-> 0]] :
            s \in SeqsOf({0, 1}, 1, block_size + MaxOver)} : B \in {1, 2}}

InitGen ==
  /\ pc = "gen_head"
  /\ idx \in Seeds
  /\ history = idx
  /\ max_new_tokens \in 0..MaxNew
  /\ n_done = 0 /\ idx_cond = <<>> /\ gen_out = <<>> /\ sampled = <<>>
  /\ IdleVocab /\ IdleBatch /\ IdleFwd /\ IdleHead /\ IdleLoss /\ IdleTrain /\ IdleRepro

NextGen == GenForward \/ GenSample \/ GenReturn

SpecGen == InitGen /\ [][NextGen]_vars

\* The same, with the loop scheduled: a sequential program takes its next step.
SpecGenFair == SpecGen /\ WF_vars(NextGen)

\* What holds of the loop at every step: it never runs past max_new_tokens, one
\* token of range(vocab_size) and one decoded character are added a pass, in
\* order, and the loop is left only after max_new_tokens passes.
GenCounts ==
  /\ n_done <= max_new_tokens
  /\ Len(sampled) = n_done
  /\ Len(gen_out) = n_done
  /\ \A k \in 1..Len(sampled) :
       /\ sampled[k] \in 0..(vocab_size_of(chars) - 1)
       /\ sampled[k] = history[1][Len(history[1]) - n_done + k]
       /\ gen_out[k] = itos[sampled[k]]
  /\ pc = "done" => n_done = max_new_tokens
  /\ pc # "error"

\* C2: generate terminates after exactly N sampling steps; every sampled token is
\* an index in [0, vocab_size); the returned string is the N decoded characters
\* in the order they were sampled.
C2_ExactlyNTokens == []GenCounts /\ <>(pc = "done")

\* generate has returned at least two tokens, not all alike, for a batch of two rows.
C2_Witness ==
  /\ pc = "done"
  /\ max_new_tokens >= 2
  /\ Len(gen_out) = max_new_tokens
  /\ gen_out[1] # gen_out[2]
  /\ Len(idx) = 2

\* C3: the context of the k-th forward pass is exactly the last
\* min(T0 + k, block_size) tokens of the history (the seed, then the k tokens
\* sampled so far); its time dimension never exceeds block_size.
C3_ContextIsTail ==
  pc = "gen_sample" =>
    /\ fwd.by = "generate"
    /\ fwd.T = Min(Len(history[1]), block_size)
    /\ fwd.T <= block_size
    /\ Len(idx_cond) = Len(history)
    /\ \A r \in 1..Len(history) :
         /\ Len(history[r]) = Len(history[1])
         /\ Len(idx_cond[r]) = Min(Len(history[r]), block_size)
         /\ \A j \in 1..Len(idx_cond[r]) :
              idx_cond[r][j] = history[r][Len(history[r]) - Len(idx_cond[r]) + j]

\* A forward pass after the sampled tokens have made the history outgrow
\* block_size.
C3_Witness ==
  /\ pc = "gen_sample"
  /\ Len(history[1]) > block_size
  /\ n_done >= 1
  /\ Len(history[1]) - n_done <= block_size
  /\ history[1][1] # history[1][Len(history[1])]

\* ------------------------------------------------------------------------
\* estimate_loss and the training loop (tinygpt.py:54-65, 227-277)
\* ------------------------------------------------------------------------
\* The corpus of the whole program: long enough for both splits to hold a window.
Repeated(s) == [k \in 1..(10 * (block_size + 1)) |-> s[((k - 1) % Len(s)) + 1]]
TrainText == Repeated(SampleText)
TrainTexts == {TrainText, Repeated(<<2, 1>>)}

\* n = int(0.9*data.shape[0])
split_n(L) == (9 * L) \div 10

\* A slip that drops the evaluation of the final iteration.
should_eval_no_final(i) == i % eval_interval = 0

\* if iter % eval_interval == 0 or iter == max_iters - 1
should_eval(i) == i % eval_interval = 0 \/ i = max_iters - 1

\* A slip that leaves estimate_loss without line 64.
mode_left_by_estimate_loss == FALSE

\* Tensor.training = True (tinygpt.py:64)
mode_after_estimate_loss == TRUE

Log(op) == ev_log' = Append(ev_log, [op |-> op, mode |-> training])

InitMain ==
  /\ pc = "start"
  /\ text \in TrainTexts
  /\ chars = <<>> /\ stoi = <<>> /\ itos = <<>> /\ NoRoundTrip
  /\ train_data = <<>> /\ val_data = <<>>
  /\ split = "train" /\ ix = <<>> /\ xb = <<>> /\ yb = <<>>
  /\ training = FALSE /\ trng = manual_seed(seed) /\ fwd = NoForward
  /\ fw_idx = <<>> /\ fw_targets = FALSE
  /\ IdleHead /\ IdleLoss /\ IdleTrain /\ IdleGen /\ IdleRepro

\* Lines 227-255: the vocabulary, the two splits, the model (whose parameters are
\* drawn from the Tensor generator), Tensor.training = True.
Setup ==
  /\ pc = "start"
  /\ chars' = chars_of(text)
  /\ stoi' = stoi_of(chars')
  /\ itos' = itos_of(chars')
  /\ LET data == encode(stoi', text)
         n == split_n(Len(data))
     IN /\ train_data' = Slice(data, 0, n)
        /\ val_data' = Slice(data, n, Len(data))
  /\ trng' = rng_next(trng)
  /\ training' = TRUE
  /\ pc' = "loop_head"
  /\ UNCHANGED <<text, s_in, l_in, enc_s, dec_enc_s, dec_l, enc_dec_l>>
  /\ UNCHANGED <<split, ix, xb, yb, fwd, fw_idx, fw_targets>>
  /\ UNCHANGED <<headVars, lossVars, trainVars, genVars, reproVars>>

\* for iter in range(max_iters): the next iteration, or the end of the loop.
LoopHead ==
  /\ pc = "loop_head"
  /\ IF range_continues(done_iters, max_iters)
     THEN /\ iter' = done_iters
          /\ ev_log' = <<>>
          /\ pc' = IF should_eval(iter') THEN "est_enter" ELSE "train_batch"
     ELSE /\ pc' = "trained"
          /\ UNCHANGED <<iter, ev_log>>
  /\ UNCHANGED <<est_split, est_k, done_iters, reports>>
  /\ UNCHANGED <<vocabVars, batchVars, fwdVars, headVars, lossVars, genVars, reproVars>>

\* estimate_loss, lines 55-57: Tensor.training = False, the first split.
EstEnter ==
  /\ pc = "est_enter"
  /\ training' = FALSE
  /\ est_split' = "train"
  /\ est_k' = 0
  /\ pc' = "est_loop"
  /\ UNCHANGED <<trng, fwd, fw_idx, fw_targets, iter, ev_log, done_iters, reports>>
  /\ UNCHANGED <<vocabVars, batchVars, headVars, lossVars, genVars, reproVars>>

\* for k in range(eval_iters), and after it the next split of line 57.
EstLoop ==
  /\ pc = "est_loop"
  /\ IF range_continues(est_k, eval_iters)
     THEN pc' = "est_batch" /\ UNCHANGED <<est_split, est_k>>
     ELSE IF est_split = "train"
          THEN est_split' = "val" /\ est_k' = 0 /\ pc' = "est_loop"
          ELSE pc' = "est_return" /\ UNCHANGED <<est_split, est_k>>
  /\ UNCHANGED <<iter, ev_log, done_iters, reports>>
  /\ UNCHANGED <<vocabVars, batchVars, fwdVars, headVars, lossVars, genVars, reproVars>>

\* X, Y = get_batch(split)
EstBatch ==
  /\ pc = "est_batch"
  /\ get_batch_seeded(est_split)
  /\ Log("est:get_batch:" \o est_split)
  /\ pc' = "est_forward"
  /\ UNCHANGED <<train_data, val_data, training, fwd, fw_idx, fw_targets>>
  /\ UNCHANGED <<iter, est_split, est_k, done_iters, reports>>
  /\ UNCHANGED <<vocabVars, headVars, lossVars, genVars, reproVars>>

\* _, loss = model(X, Y); losses[k] = loss.numpy()
EstForward ==
  /\ pc = "est_forward"
  /\ Forward("estimate_loss", xb, TRUE, "est_loop")
  /\ Log("est:forward:" \o est_split)
  /\ est_k' = est_k + 1
  /\ UNCHANGED <<training, fw_idx, fw_targets, iter, est_split, done_iters, reports>>
  /\ UNCHANGED <<vocabVars, batchVars, headVars, lossVars, genVars, reproVars>>

\* Lines 64-65: Tensor.training = True; return out.
EstReturn ==
  /\ pc = "est_return"
  /\ training' = mode_after_estimate_loss
  /\ pc' = "report"
  /\ UNCHANGED <<trng, fwd, fw_idx, fw_targets, trainVars>>
  /\ UNCHANGED <<vocabVars, batchVars, headVars, lossVars, genVars, reproVars>>

\* print(f"step {iter}: train loss ..., val loss ...")
Report ==
  /\ pc = "report"
  /\ reports' = Append(reports, iter)
  /\ Log("report")
  /\ pc' = "train_batch"
  /\ UNCHANGED <<iter, est_split, est_k, done_iters>>
  /\ UNCHANGED <<vocabVars, batchVars, fwdVars, headVars, lossVars, genVars, reproVars>>

\* xb, yb = get_batch("train")
TrainBatch ==
  /\ pc = "train_batch"
  /\ get_batch_seeded("train")
  /\ Log("get_batch")
  /\ pc' = "train_forward"
  /\ UNCHANGED <<train_data, val_data, training, fwd, fw_idx, fw_targets>>
  /\ UNCHANGED <<iter, est_split, est_k, done_iters, reports>>
  /\ UNCHANGED <<vocabVars, headVars, lossVars, genVars, reproVars>>

\* _, loss = model(xb, yb)
TrainForward ==
  /\ pc = "train_forward"
  /\ Forward("train", xb, TRUE, "zero_grad")
  /\ Log("forward")
  /\ UNCHANGED <<training, fw_idx, fw_targets, iter, est_split, est_k, done_iters, reports>>
  /\ UNCHANGED <<vocabVars, batchVars, headVars, lossVars, genVars, reproVars>>

\* optimizer.zero_grad()
ZeroGrad ==
  /\ pc = "zero_grad"
  /\ Log("zero_grad")
  /\ pc' = "backward"
  /\ UNCHANGED <<iter, est_split, est_k, done_iters, reports>>
  /\ UNCHANGED <<vocabVars, batchVars, fwdVars, headVars, lossVars, genVars, reproVars>>

\* loss.backward()
Backward ==
  /\ pc = "backward"
  /\ Log("backward")
  /\ pc' = "step"
  /\ UNCHANGED <<iter, est_split, est_k, done_iters, reports>>
  /\ UNCHANGED <<vocabVars, batchVars, fwdVars, headVars, lossVars, genVars, reproVars>>

\* optimizer.step(): the iteration is complete.
Step ==
  /\ pc = "step"
  /\ Log("step")
  /\ done_iters' = done_iters + 1
  /\ pc' = "loop_head"
  /\ UNCHANGED <<iter, est_split, est_k, reports>>
  /\ UNCHANGED <<vocabVars, batchVars, fwdVars, headVars, lossVars, genVars, reproVars>>

\* Lines 273-277: Tensor.training = False; context = Tensor.zeros((1, 1));
\* model.generate(context, max_new_tokens), here MaxNew tokens.
TrainEnd ==
  /\ pc = "trained"
  /\ training' = FALSE
  /\ idx' = <<<<0>>>>
  /\ history' = idx'
  /\ max_new_tokens' = MaxNew
  /\ n_done' = 0 /\ gen_out' = <<>> /\ sampled' = <<>>
  /\ pc' = "gen_head"
  /\ UNCHANGED <<idx_cond, trng, fwd, fw_idx, fw_targets>>
  /\ UNCHANGED <<vocabVars, batchVars, headVars, lossVars, trainVars, reproVars>>

Next ==
  \/ Setup \/ LoopHead
  \/ EstEnter \/ EstLoop \/ EstBatch \/ EstForward \/ EstReturn \/ Report
  \/ TrainBatch \/ TrainForward \/ ZeroGrad \/ Backward \/ Step
  \/ TrainEnd \/ GenForward \/ GenSample \/ GenReturn

Spec == InitMain /\ [][Next]_vars

RECURSIVE Rep(_, _)
Rep(s, n) == IF n = 0 THEN <<>> ELSE s \o Rep(s, n - 1)

IsPrefix(a, b) == Len(a) <= Len(b) /\ a = SubSeq(b, 1, Len(a))

Ops(log) == [k \in 1..Len(log) |-> log[k].op]

EvalOps ==
  Rep(<<"est:get_batch:train", "est:forward:train">>, eval_iters)
    \o Rep(<<"est:get_batch:val", "est:forward:val">>, eval_iters) \o <<"report">>

TrainOps == <<"get_batch", "forward", "zero_grad", "backward", "step">>

\* What iteration i is to do, in order.
ExpectedOps(i) ==
  (IF i % eval_interval = 0 \/ i = max_iters - 1 THEN EvalOps ELSE <<>>) \o TrainOps

InEstimate == pc \in {"est_loop", "est_batch", "est_forward", "est_return"}
InTrainStep == pc \in {"report", "train_batch", "train_forward", "zero_grad", "backward", "step"}
InIteration == pc = "est_enter" \/ InEstimate \/ InTrainStep
AfterLoop == pc \in {"trained", "gen_head", "gen_sample", "done"}

\* The iterations whose evaluation has reported so far.
Reported ==
  {i \in 0..(max_iters - 1) :
     /\ i % eval_interval = 0 \/ i = max_iters - 1
     /\ \/ i < done_iters
        \/ InIteration /\ i = iter /\ \E k \in 1..Len(ev_log) : ev_log[k].op = "report"}

\* C5: the loop runs exactly max_iters iterations, each one batch draw, forward
\* pass, zero_grad, backward and optimizer step in that order; an evaluation
\* (eval_iters train batches, eval_iters validation batches, one report) runs
\* once at the start of every iteration i with i % eval_interval = 0 or
\* i = max_iters - 1, before the training step, and at no other iteration.
C5_LoopSchedule ==
  /\ pc # "error"
  /\ done_iters <= max_iters
  /\ InIteration =>
       iter = done_iters /\ iter < max_iters /\ IsPrefix(Ops(ev_log), ExpectedOps(iter))
  /\ (pc = "loop_head" /\ done_iters > 0) =>
       iter = done_iters - 1 /\ Ops(ev_log) = ExpectedOps(iter)
  /\ AfterLoop => done_iters = max_iters /\ Ops(ev_log) = ExpectedOps(max_iters - 1)
  /\ pc # "start" => reports = sorted(list_of_set(Reported))

\* Training has ended; the last iteration was evaluated only because it is the
\* last, and an iteration in between was not evaluated.
C5_Witness ==
  /\ pc = "trained"
  /\ (max_iters - 1) % eval_interval # 0
  /\ reports[Len(reports)] = max_iters - 1
  /\ Len(reports) >= 2
  /\ Len(reports) < max_iters

\* C9: the mode flag is off (evaluation) during every forward pass of
\* estimate_loss and of generate after training, on (training) during every
\* forward pass, backward pass and optimizer step of a training iteration, and
\* on whenever estimate_loss has returned.
C9_ModeFlag ==
  /\ \A k \in 1..Len(ev_log) :
       /\ ev_log[k].op \in Range(EvalOps) \ {"report"} => ~ev_log[k].mode
       /\ ev_log[k].op \in Range(TrainOps) \cup {"report"} => ev_log[k].mode
  /\ fwd.by = "estimate_loss" => ~fwd.mode
  /\ fwd.by = "train" => fwd.mode
  /\ fwd.by = "generate" => ~fwd.mode
  /\ InEstimate => ~training
  /\ InTrainStep => training
  /\ pc \in {"gen_head", "gen_sample", "done"} => ~training

\* A forward pass of generate, after a training that evaluated at least twice.
C9_Witness ==
  /\ pc = "gen_sample"
  /\ fwd.by = "generate"
  /\ Len(reports) >= 2
  /\ done_iters = max_iters
  /\ \E k \in 1..Len(ev_log) : ev_log[k].op = "step" /\ ev_log[k].mode

\* ------------------------------------------------------------------------
\* SpecRepro: two runs of the program, A and B, make the same calls.
\* ------------------------------------------------------------------------
\* Each run has its Tensor generator, seeded by Tensor.manual_seed(31337) at
\* line 14, and numpy's global generator, which line 193 draws from and nothing
\* in the program seeds: it starts from the operating system's entropy.
RunIds == {"A", "B"}

\* np.random.choice(V, size=1, p=p) by a generator in state s: the index whose
\* cumulative probability covers the draw s / RngMod.  Both runs have the same
\* parameters and so the same p, here the uniform one.
np_choice(s, V) == (s * V) \div RngMod

\* generate(idx, n) with numpy's generator in state s: the string and the state left.
RECURSIVE generate_from(_, _, _)
generate_from(s, rows, n) ==
  IF n = 0 THEN [out |-> <<>>, state |-> s]
  ELSE LET s1 == rng_next(s)
           idx_next == [r \in 1..Len(rows) |-> np_choice(s1, vocab_size_of(chars))]
           rest == generate_from(s1, crop(cat_column(rows, idx_next)), n - 1)
       IN [out |-> decode(itos, <<idx_next[1]>>) \o rest.out, state |-> rest.state]

InitRepro ==
  /\ pc = "start"
  /\ text = TrainText
  /\ chars = chars_of(text) /\ stoi = stoi_of(chars) /\ itos = itos_of(chars)
  /\ NoRoundTrip
  /\ train_data = Slice(encode(stoi, text), 0, split_n(Len(text)))
  /\ val_data = Slice(encode(stoi, text), split_n(Len(text)), Len(text))
  /\ split = "train" /\ ix = <<>> /\ xb = <<>> /\ yb = <<>>
  /\ runs \in [RunIds -> [trng : {rng_next(manual_seed(seed))}, nprng : 0..(RngMod - 1),
                          batches : {<<>>}, outs : {<<>>}]]
  /\ calls = <<>>
  /\ IdleFwd /\ IdleHead /\ IdleLoss /\ IdleTrain /\ IdleGen

\* Both runs call get_batch(sp).
ReproGetBatch ==
  /\ Len(calls) < MaxCalls
  /\ \E sp \in {"train", "val"} :
       /\ runs' = [r \in RunIds |->
            LET data == get_batch_data(sp)
                offs == get_batch_ix(uniform_from(runs[r].trng, batch_size,
                                                  get_batch_high(data)))
            IN [runs[r] EXCEPT
                  !.trng = rng_after(@, batch_size),
                  !.batches = Append(@, [x |-> get_batch_x(data, offs),
                                         y |-> get_batch_y(data, offs)])]]
       /\ calls' = Append(calls, "get_batch:" \o sp)
  /\ pc' = "running"
  /\ UNCHANGED <<vocabVars, batchVars, fwdVars, headVars, lossVars, trainVars, genVars>>

\* Both runs call generate(Tensor.zeros((1, 1)), MaxNew) in evaluation mode.
ReproGenerate ==
  /\ Len(calls) < MaxCalls
  /\ runs' = [r \in RunIds |->
       LET g == generate_from(runs[r].nprng, <<<<0>>>>, MaxNew)
       IN [runs[r] EXCEPT !.nprng = g.state, !.outs = Append(@, g.out)]]
  /\ calls' = Append(calls, "generate")
  /\ pc' = "running"
  /\ UNCHANGED <<vocabVars, batchVars, fwdVars, headVars, lossVars, trainVars, genVars>>

NextRepro == ReproGetBatch \/ ReproGenerate

SpecRepro == InitRepro /\ [][NextRepro]_vars

\* C8: with the same seed, two runs that make the same get_batch calls obtain
\* identical batches, and two runs that make the same generate calls obtain an
\* identical output string.
C8_SameSeedSameResults ==
  /\ runs["A"].batches = runs["B"].batches
  /\ runs["A"].outs = runs["B"].outs

====
